---- MODULE Spec2Model ----
(***************************************************************************)
(* ggedit: a modal terminal text editor.                                   *)
(*                                                                         *)
(* The module models the Document (src/src/document.rs) and the Editor     *)
(* key dispatcher (src/src/editor.rs).  Text is a sequence of one-letter   *)
(* strings, a row is such a sequence, a document is a sequence of rows.    *)
(* Option values are sequences of length 0 (None) or 1 (Some(v)).          *)
(*                                                                         *)
(* The specifications share the Document operators:                        *)
(*   Spec      the editor: one action per key handler of process_keypress; *)
(*   SpecFind  Document::find called with arbitrary arguments;             *)
(*   SpecEdit  the Document edit operations called with arbitrary          *)
(*             arguments;                                                  *)
(*   SpecSave  Document::save_as called with arbitrary arguments;          *)
(*   SpecMove  Editor::move_cursor called on arbitrary cursors and keys.   *)
(***************************************************************************)
EXTENDS Integers, Sequences, FiniteSets, TLC

VARIABLES
    rows,             \* Document.rows: the text of each Row
    file_name,        \* Document.file_name: Option<String>
    dirty,            \* Document.dirty
    cursor_position,  \* Editor.cursor_position
    offset,           \* Editor.offset
    mode,             \* Editor.mode
    command_buffer,   \* Editor.command_buffer
    position_buffer,  \* Editor.position_buffer
    status_message,   \* Editor.status_message (its text)
    should_quit,      \* Editor.should_quit
    term,             \* Terminal.size: [height, width], fixed at start-up
    pc,               \* where the process is: "top" (Editor::run loop),
                      \* "d_gesture" / "search_nav" (blocking nested key
                      \* reads), "panicked" (the process aborted)
    highlight,        \* the search word of the last Document::highlight call
    command_buffer_args, \* Some(tokens) when the key just processed was Enter
                      \* in Command mode: the tokens of the line it executed;
                      \* None after any other key
    pressed_key,      \* Some(key) for the key the last read_key returned (at
                      \* the top of process_keypress or in a nested loop);
                      \* None before the first key
    read_in,          \* where pressed_key was read: the mode process_keypress
                      \* matched on, or the nested loop ("d_gesture",
                      \* "search_nav"); "none" before the first key
    call              \* SpecFind, SpecEdit, SpecSave: the Document call made,
                      \* its arguments and its result

vars == <<rows, file_name, dirty, cursor_position, offset, mode, command_buffer,
          position_buffer, status_message, should_quit, term, pc, highlight,
          command_buffer_args, pressed_key, read_in, call>>

editor_vars == <<cursor_position, offset, mode, command_buffer, position_buffer,
                 status_message, should_quit, term, pc, highlight, command_buffer_args,
                 pressed_key, read_in>>

(***************************************************************************)
(* Bounds of the model.                                                    *)
(***************************************************************************)
\* editor: rows a document may grow to, and characters a row may grow to
MaxRows == 2
MaxLen == 1
\* editor: characters the search query may grow to
MaxSearch == 1
\* editor: the terminal's text area has TermSize rows and TermSize columns
TermSize == 1
\* Document calls: rows and row length of the documents drawn, length of a query
MaxDocRows == 2
MaxDocLen == 2
MaxQuery == 2

\* characters typed in Insert mode, besides the line break
TextChars == {"a"}
\* characters typed in Command mode, besides the line break; file names are
\* made of the same letters
CmdChars == {"q", "w", "!", " "}
\* the command lines typed: the buffer is always the beginning of one of them
Commands ==
    {<<"q">>, <<"q", "!">>, <<"w">>, <<"w", "q">>, <<"w", " ", "q">>, <<"w", " ", "w">>,
     <<"w", "q", " ", "w">>, <<"w", "w">>, <<" ", " ">>, <<" ", "q">>}
\* characters of the documents and queries the Document calls are made on
DocChars == {"a", "b"}

NL == "\n"

(***************************************************************************)
(* Values.                                                                 *)
(***************************************************************************)
None == <<>>

Some(v) == <<v>>

Pos(px, py) == [x |-> px, y |-> py]

SeqsUpTo(S, n) == UNION {[1..k -> S] : k \in 0..n}

Min(a, b) == IF a < b THEN a ELSE b

\* usize subtraction that stops at 0
saturating_sub(a, b) == IF a > b THEN a - b ELSE 0

SetMin(S) == CHOOSE m \in S : \A n \in S : m <= n

SetMax(S) == CHOOSE m \in S : \A n \in S : m >= n

(***************************************************************************)
(* Row.  The Row type's source is not among the source files; its          *)
(* operations follow the design document, section 4.1.                     *)
(***************************************************************************)
\* Row::len
RowLen(row) == Len(row)

\* Row::insert(column, char): before column; column >= len appends
RowInsert(row, at, c) ==
    IF at >= Len(row) THEN Append(row, c)
    ELSE SubSeq(row, 1, at) \o <<c>> \o SubSeq(row, at + 1, Len(row))

\* Row::delete(column): no-op when column >= len
RowDelete(row, at) ==
    IF at >= Len(row) THEN row
    ELSE SubSeq(row, 1, at) \o SubSeq(row, at + 2, Len(row))

\* Row::split(column): self keeps [0, column), the result is [column, end)
RowSplitHead(row, at) == SubSeq(row, 1, Min(at, Len(row)))

RowSplitTail(row, at) == SubSeq(row, Min(at, Len(row)) + 1, Len(row))

\* Row::append(other)
RowAppend(row, other) == row \o other

\* query occurs in row at column c (zero-based)
RowOccurs(row, query, c) ==
    /\ c + Len(query) <= Len(row)
    /\ \A i \in 1..Len(query) : row[c + i] = query[i]

\* Row::find(query, from_col, direction): first occurrence at or after from_col
\* (Forward), at or before from_col (Backward), within this row
RowFind(row, query, from_col, direction) ==
    LET hits == IF direction = "Forward"
                THEN {c \in from_col..Len(row) : RowOccurs(row, query, c)}
                ELSE {c \in 0..Min(from_col, Len(row)) : RowOccurs(row, query, c)}
    IN  IF hits = {} THEN None
        ELSE IF direction = "Forward" THEN Some(SetMin(hits)) ELSE Some(SetMax(hits))

(***************************************************************************)
(* Document (src/src/document.rs).  Each operation maps the document       *)
(* fields it reads to the fields it writes.                                *)
(***************************************************************************)
\* Document::is_empty, Document::len
is_empty(rs) == Len(rs) = 0

\* Document::size_in_bytes
RECURSIVE size_in_bytes(_)
size_in_bytes(rs) ==
    IF rs = <<>> THEN 0 ELSE RowLen(Head(rs)) + 1 + size_in_bytes(Tail(rs))

\* Vec::insert / Vec::remove on the zero-based index i
VecInsert(rs, i, r) == SubSeq(rs, 1, i) \o <<r>> \o SubSeq(rs, i + 1, Len(rs))

VecRemove(rs, i) == SubSeq(rs, 1, i) \o SubSeq(rs, i + 2, Len(rs))

\* Document::insert_newline appending a row for every row index at or past
\* the end (mutation of insert_newline)
insert_newline_appends(rs, at) ==
    IF at.y < Len(rs)
    THEN VecInsert([rs EXCEPT ![at.y + 1] = RowSplitHead(rs[at.y + 1], at.x)],
                   at.y + 1, RowSplitTail(rs[at.y + 1], at.x))
    ELSE Append(rs, <<>>)

\* Document::insert_newline: the new rows
insert_newline(rs, at) ==
    IF at.y < Len(rs)
    THEN VecInsert([rs EXCEPT ![at.y + 1] = RowSplitHead(rs[at.y + 1], at.x)],
                   at.y + 1, RowSplitTail(rs[at.y + 1], at.x))
    ELSE IF at.y = Len(rs) THEN Append(rs, <<>>)
    ELSE rs

\* Document::insert: [rows, dirty] after the call
insert(rs, d, at, c) ==
    IF at.y > Len(rs) THEN [rows |-> rs, dirty |-> d]
    ELSE IF c = NL THEN [rows |-> insert_newline(rs, at), dirty |-> TRUE]
    ELSE IF at.y = Len(rs)
         THEN [rows |-> Append(rs, RowInsert(<<>>, 0, c)), dirty |-> TRUE]
         ELSE [rows |-> [rs EXCEPT ![at.y + 1] = RowInsert(rs[at.y + 1], at.x, c)],
               dirty |-> TRUE]

\* Document::delete with the line merge left out (mutation of delete)
delete_no_merge(rs, d, at) ==
    IF at.y >= Len(rs) THEN [rows |-> rs, dirty |-> d]
    ELSE [rows |-> [rs EXCEPT ![at.y + 1] = RowDelete(rs[at.y + 1], at.x)],
          dirty |-> TRUE]

\* Document::delete: [rows, dirty] after the call
delete(rs, d, at) ==
    IF at.y >= Len(rs) THEN [rows |-> rs, dirty |-> d]
    ELSE IF at.x = RowLen(rs[at.y + 1]) /\ at.y + 1 < Len(rs)
         THEN [rows |-> VecRemove([rs EXCEPT ![at.y + 1] =
                                       RowAppend(rs[at.y + 1], rs[at.y + 2])],
                                  at.y + 1),
               dirty |-> TRUE]
         ELSE [rows |-> [rs EXCEPT ![at.y + 1] = RowDelete(rs[at.y + 1], at.x)],
               dirty |-> TRUE]

\* Document::delete_line: [rows, dirty] after the call
delete_line(rs, d, at) ==
    IF at.y >= Len(rs) THEN [rows |-> rs, dirty |-> d]
    ELSE [rows |-> VecRemove(rs, at.y), dirty |-> TRUE]

\* the loop of Document::find: n iterations left, position the loop variable
RECURSIVE find_loop(_, _, _, _, _)
find_loop(rs, query, position, direction, n) ==
    IF n = 0 THEN None
    ELSE IF position.y < Len(rs)
    THEN LET hit == RowFind(rs[position.y + 1], query, position.x, direction)
         IN  IF hit # None THEN Some(Pos(hit[1], position.y))
             ELSE IF direction = "Forward"
                  THEN find_loop(rs, query, Pos(0, position.y + 1), direction, n - 1)
                  ELSE IF position.y > 0
                       THEN find_loop(rs, query,
                                      Pos(RowLen(rs[position.y]), position.y - 1),
                                      direction, n - 1)
                       ELSE find_loop(rs, query, position, direction, n - 1)
    ELSE None

\* Document::find returning the start column instead of the hit's column
\* (mutation of find)
find_keeps_x(rs, query, at, direction) ==
    LET r == IF at.y >= Len(rs) THEN None
             ELSE IF direction = "Forward"
                  THEN find_loop(rs, query, at, direction, Len(rs) - at.y)
                  ELSE find_loop(rs, query, at, direction, at.y)
    IN  IF r = None THEN None ELSE Some(Pos(at.x, r[1].y))

\* Document::find scanning one row only (mutation of find)
find_one_row(rs, query, at, direction) ==
    IF at.y >= Len(rs) THEN None
    ELSE find_loop(rs, query, at, direction, IF direction = "Forward" THEN 1 ELSE at.y)

\* Document::find: Option<Position>
find(rs, query, at, direction) ==
    IF at.y >= Len(rs) THEN None
    ELSE IF direction = "Forward"
         THEN find_loop(rs, query, at, direction, Len(rs) - at.y)
         ELSE find_loop(rs, query, at, direction, at.y)

(***************************************************************************)
(* Persisting.  io is the outcome of the file system calls of save: "ok",  *)
(* "create_err" when File::create fails, "write_err" when a write_all      *)
(* fails after k rows were written.  A result is [ok, text, name, lines,   *)
(* bytes]: the Ok message or the Err text; written is the Option<[name,    *)
(* rows]> of the file the call left on disk.                               *)
(***************************************************************************)
\* the outcomes of the file system calls of one save of rs
IOs(rs) ==
    {[kind |-> "ok", k |-> 0], [kind |-> "create_err", k |-> 0]}
    \cup {[kind |-> "write_err", k |-> j] : j \in 0..(Len(rs) - 1)}

Result(isok, text, name, l, b) ==
    [ok |-> isok, text |-> text, name |-> name, lines |-> l, bytes |-> b]

Err(text) == Result(FALSE, text, <<>>, 0, 0)

\* Document::save: [result, written]
save(rs, fname, io) ==
    IF fname = None
    THEN [result |-> Err("Document has no file name"), written |-> None]
    ELSE IF io.kind = "create_err"
    THEN [result |-> Err("io error"), written |-> None]
    ELSE IF io.kind = "write_err"
    THEN [result |-> Err("io error"),
          written |-> Some([name |-> fname[1], rows |-> SubSeq(rs, 1, io.k)])]
    ELSE [result |-> Result(TRUE, "written", fname[1], Len(rs), size_in_bytes(rs)),
          written |-> Some([name |-> fname[1], rows |-> rs])]

\* Document::save_as not changing the file name back (mutation of save_as)
save_as_keeps_name(rs, fname, d, filename, io) ==
    IF is_empty(rs) /\ ~d
    THEN [file_name |-> fname, dirty |-> d,
          result |-> Err("Document is empty"), written |-> None]
    ELSE IF filename # None
    THEN IF fname # None
         THEN IF filename[1] = fname[1]
              THEN LET s == save(rs, fname, io)
                   IN  [file_name |-> fname, dirty |-> FALSE,
                        result |-> s.result, written |-> s.written]
              ELSE LET s == save(rs, filename, io)
                   IN  [file_name |-> filename, dirty |-> d,
                        result |-> s.result, written |-> s.written]
         ELSE LET s == save(rs, filename, io)
              IN  [file_name |-> filename, dirty |-> FALSE,
                   result |-> s.result, written |-> s.written]
    ELSE LET s == save(rs, fname, io)
         IN  [file_name |-> fname,
              dirty |-> IF s.result.ok THEN FALSE ELSE d,
              result |-> s.result, written |-> s.written]

\* Document::save_as: [file_name, dirty, result, written]
save_as(rs, fname, d, filename, io) ==
    IF is_empty(rs) /\ ~d
    THEN [file_name |-> fname, dirty |-> d,
          result |-> Err("Document is empty"), written |-> None]
    ELSE IF filename # None
    THEN IF fname # None
         THEN IF filename[1] = fname[1]
              THEN LET s == save(rs, fname, io)
                   IN  [file_name |-> fname, dirty |-> FALSE,
                        result |-> s.result, written |-> s.written]
              ELSE LET s == save(rs, filename, io)
                   IN  [file_name |-> fname, dirty |-> d,
                        result |-> s.result, written |-> s.written]
         ELSE LET s == save(rs, filename, io)
              IN  [file_name |-> filename, dirty |-> FALSE,
                   result |-> s.result, written |-> s.written]
    ELSE LET s == save(rs, fname, io)
         IN  [file_name |-> fname,
              dirty |-> IF s.result.ok THEN FALSE ELSE d,
              result |-> s.result, written |-> s.written]

(***************************************************************************)
(* Editor (src/src/editor.rs).  A handler is a sequence of calls on the    *)
(* editor; an editor value e is the record of the fields the calls read    *)
(* and write, and each call maps an editor value to the next one.          *)
(***************************************************************************)
Key(kind) == [kind |-> kind, c |-> ""]

Char(c) == [kind |-> "Char", c |-> c]

\* StatusMessage::from(text): the text, with the values formatted into it
Status(kind, text, detail, l, b) ==
    [kind |-> kind, text |-> text, detail |-> detail, lines |-> l, bytes |-> b]

Text(kind) == Status(kind, <<>>, "", 0, 0)

\* format!("{prefix}{buffer}")
Fmt(kind, buffer) == Status(kind, buffer, "", 0, 0)

\* the Ok message of save, or prefix + e.to_string()
Report(prefix, result) ==
    IF result.ok THEN Status("written", result.name, "", result.lines, result.bytes)
    ELSE Status(prefix, <<>>, result.text, 0, 0)

Unsaved == Text("File has unsaved changes. Use :wq to save and quit, or :q! to quit without saving.")

Editor ==
    [rows |-> rows, file_name |-> file_name, dirty |-> dirty,
     cursor_position |-> cursor_position, offset |-> offset, mode |-> mode,
     command_buffer |-> command_buffer, position_buffer |-> position_buffer,
     status_message |-> status_message, should_quit |-> should_quit,
     highlight |-> highlight]

\* Document::row(y).len(), 0 when there is no such row
width_at(rs, y) == IF y < Len(rs) THEN RowLen(rs[y + 1]) ELSE 0

\* one axis of Editor::scroll, scrolling down past the cursor (mutation of scroll_axis)
scroll_axis_to_cursor(c, off, size) ==
    IF c < off THEN c
    ELSE IF c >= off + size THEN c + 1
    ELSE off

\* one axis of Editor::scroll
scroll_axis(c, off, size) ==
    IF c < off THEN c
    ELSE IF c >= off + size THEN saturating_sub(c, size) + 1
    ELSE off

\* Editor::scroll
scroll(e) ==
    [e EXCEPT !.offset = Pos(scroll_axis(e.cursor_position.x, e.offset.x, term.width),
                             scroll_axis(e.cursor_position.y, e.offset.y, term.height))]

\* Editor::move_cursor with Right stopping at the end of a row (mutation of
\* move_cursor)
move_cursor_no_wrap(e, key) ==
    LET x == e.cursor_position.x
        y == e.cursor_position.y
        height == Len(e.rows)
        terminal_height == term.height
        width == width_at(e.rows, y)
        k == IF key.kind = "Char" THEN key.c ELSE key.kind
        moved ==
            IF k \in {"Up", "k"} THEN Pos(x, saturating_sub(y, 1))
            ELSE IF k \in {"Down", "j"} THEN (IF y < height THEN Pos(x, y + 1) ELSE Pos(x, y))
            ELSE IF k \in {"Left", "h", "Backspace"}
                 THEN IF x > 0 THEN Pos(x - 1, y)
                      ELSE IF y > 0 THEN Pos(width_at(e.rows, y - 1), y - 1)
                      ELSE Pos(x, y)
            ELSE IF k \in {"Right", "l"}
                 THEN IF x < width THEN Pos(x + 1, y)
                      ELSE Pos(x, y)
            ELSE IF k = "PageUp"
                 THEN Pos(x, IF y > terminal_height THEN saturating_sub(y, terminal_height)
                             ELSE 0)
            ELSE IF k = "PageDown"
                 THEN Pos(x, IF y + terminal_height < height THEN y + terminal_height
                             ELSE height)
            ELSE IF k \in {"Home", "0"} THEN Pos(0, y)
            ELSE IF k \in {"End", "$"} THEN Pos(width, y)
            ELSE Pos(x, y)
        new_width == width_at(e.rows, moved.y)
    IN  [e EXCEPT !.cursor_position =
                      Pos(IF moved.x > new_width THEN new_width ELSE moved.x, moved.y)]

\* Editor::move_cursor with Down not stopping at the row count (mutation of
\* move_cursor)
move_cursor_down_unbounded(e, key) ==
    LET x == e.cursor_position.x
        y == e.cursor_position.y
        height == Len(e.rows)
        terminal_height == term.height
        width == width_at(e.rows, y)
        k == IF key.kind = "Char" THEN key.c ELSE key.kind
        moved ==
            IF k \in {"Up", "k"} THEN Pos(x, saturating_sub(y, 1))
            ELSE IF k \in {"Down", "j"} THEN Pos(x, y + 1)
            ELSE IF k \in {"Left", "h", "Backspace"}
                 THEN IF x > 0 THEN Pos(x - 1, y)
                      ELSE IF y > 0 THEN Pos(width_at(e.rows, y - 1), y - 1)
                      ELSE Pos(x, y)
            ELSE IF k \in {"Right", "l"}
                 THEN IF x < width THEN Pos(x + 1, y)
                      ELSE IF y < height THEN Pos(0, y + 1)
                      ELSE Pos(x, y)
            ELSE IF k = "PageUp"
                 THEN Pos(x, IF y > terminal_height THEN saturating_sub(y, terminal_height)
                             ELSE 0)
            ELSE IF k = "PageDown"
                 THEN Pos(x, IF y + terminal_height < height THEN y + terminal_height
                             ELSE height)
            ELSE IF k \in {"Home", "0"} THEN Pos(0, y)
            ELSE IF k \in {"End", "$"} THEN Pos(width, y)
            ELSE Pos(x, y)
        new_width == width_at(e.rows, moved.y)
    IN  [e EXCEPT !.cursor_position =
                      Pos(IF moved.x > new_width THEN new_width ELSE moved.x, moved.y)]

\* Editor::move_cursor
move_cursor(e, key) ==
    LET x == e.cursor_position.x
        y == e.cursor_position.y
        height == Len(e.rows)
        terminal_height == term.height
        width == width_at(e.rows, y)
        k == IF key.kind = "Char" THEN key.c ELSE key.kind
        moved ==
            IF k \in {"Up", "k"} THEN Pos(x, saturating_sub(y, 1))
            ELSE IF k \in {"Down", "j"} THEN (IF y < height THEN Pos(x, y + 1) ELSE Pos(x, y))
            ELSE IF k \in {"Left", "h", "Backspace"}
                 THEN IF x > 0 THEN Pos(x - 1, y)
                      ELSE IF y > 0 THEN Pos(width_at(e.rows, y - 1), y - 1)
                      ELSE Pos(x, y)
            ELSE IF k \in {"Right", "l"}
                 THEN IF x < width THEN Pos(x + 1, y)
                      ELSE IF y < height THEN Pos(0, y + 1)
                      ELSE Pos(x, y)
            ELSE IF k = "PageUp"
                 THEN Pos(x, IF y > terminal_height THEN saturating_sub(y, terminal_height)
                             ELSE 0)
            ELSE IF k = "PageDown"
                 THEN Pos(x, IF y + terminal_height < height THEN y + terminal_height
                             ELSE height)
            ELSE IF k \in {"Home", "0"} THEN Pos(0, y)
            ELSE IF k \in {"End", "$"} THEN Pos(width, y)
            ELSE Pos(x, y)
        new_width == width_at(e.rows, moved.y)
    IN  [e EXCEPT !.cursor_position =
                      Pos(IF moved.x > new_width THEN new_width ELSE moved.x, moved.y)]

\* Editor::switch_mode leaving the command buffer as it is (mutation of
\* switch_mode)
switch_mode_keeps_buffer(e, m) ==
    IF m = "Normal"
    THEN [e EXCEPT !.status_message = Text(""), !.mode = m]
    ELSE IF m = "Insert" THEN [e EXCEPT !.mode = m]
    ELSE IF m = "Command" THEN [e EXCEPT !.status_message = Text(":"), !.mode = m]
    ELSE [e EXCEPT !.position_buffer = e.cursor_position,
                   !.status_message = Text("/"), !.mode = m]

\* Editor::switch_mode
switch_mode(e, m) ==
    IF m = "Normal"
    THEN [e EXCEPT !.command_buffer = <<>>, !.status_message = Text(""), !.mode = m]
    ELSE IF m = "Insert" THEN [e EXCEPT !.mode = m]
    ELSE IF m = "Command" THEN [e EXCEPT !.status_message = Text(":"), !.mode = m]
    ELSE [e EXCEPT !.position_buffer = e.cursor_position,
                   !.status_message = Text("/"), !.mode = m]

\* the document calls, on an editor value
doc_insert_newline(e) ==
    [e EXCEPT !.rows = insert_newline(e.rows, e.cursor_position)]

doc_insert(e, c) ==
    LET r == insert(e.rows, e.dirty, e.cursor_position, c)
    IN  [e EXCEPT !.rows = r.rows, !.dirty = r.dirty]

doc_delete(e) ==
    LET r == delete(e.rows, e.dirty, e.cursor_position)
    IN  [e EXCEPT !.rows = r.rows, !.dirty = r.dirty]

doc_delete_line(e) ==
    LET r == delete_line(e.rows, e.dirty, e.cursor_position)
    IN  [e EXCEPT !.rows = r.rows, !.dirty = r.dirty]

\* the model keeps documents within MaxRows rows of MaxLen characters
InBounds(rs) == Len(rs) <= MaxRows /\ \A i \in 1..Len(rs) : Len(rs[i]) <= MaxLen

\* the editor value becomes the next state
Commit(e) ==
    /\ rows' = e.rows
    /\ file_name' = e.file_name
    /\ dirty' = e.dirty
    /\ cursor_position' = e.cursor_position
    /\ offset' = e.offset
    /\ mode' = e.mode
    /\ command_buffer' = e.command_buffer
    /\ position_buffer' = e.position_buffer
    /\ status_message' = e.status_message
    /\ should_quit' = e.should_quit
    /\ highlight' = e.highlight

\* Editor::run reads the next key at the top of its loop
AtTop(m) == pc = "top" /\ ~should_quit /\ mode = m

\* the read_key call that returns the next key
Site == IF pc = "top" THEN mode ELSE pc

\* read_key returns key
Read(key) == pressed_key' = Some(key) /\ read_in' = Site

\* process_keypress, having read key, returns through its trailing self.scroll()
Finish(e) ==
    /\ InBounds(e.rows)
    /\ Commit(scroll(e))
    /\ pc' = "top"
    /\ UNCHANGED <<term, call>>

\* the same, for every key but Enter in Command mode
Return(e, key) ==
    /\ Finish(e)
    /\ command_buffer_args' = None
    /\ Read(key)

\* the handler stays where it is: the key read changes nothing
Ignored(key) ==
    /\ command_buffer_args' = None
    /\ Read(key)
    /\ UNCHANGED <<rows, file_name, dirty, cursor_position, offset, mode, command_buffer,
                   position_buffer, status_message, should_quit, term, pc, highlight, call>>

\* the handler, having read key, blocks in the read_key of a nested loop
Block(loop, key) ==
    /\ pc' = loop
    /\ command_buffer_args' = None
    /\ Read(key)
    /\ UNCHANGED <<rows, file_name, dirty, cursor_position, offset, mode, command_buffer,
                   position_buffer, status_message, should_quit, term, highlight, call>>

(***************************************************************************)
(* Start-up: Editor::default.                                              *)
(***************************************************************************)
\* the name given on the command line
InitNames == {<<"q">>}

\* the lines of the file opened
InitDocs == SeqsUpTo(SeqsUpTo(TextChars, MaxLen), MaxRows)

NoCall == [op |-> "none"]

Init ==
    /\ term = [height |-> TermSize, width |-> TermSize]
    /\ \/ \* no argument: Document::default()
          /\ rows = <<>> /\ file_name = None /\ dirty = FALSE
          /\ status_message = Text("Press Ctrl-Q to quit")
       \/ \* the file cannot be read: Document::default() and the error
          /\ rows = <<>> /\ file_name = None /\ dirty = FALSE
          /\ status_message = Text("Error opening file: ")
       \/ \* no such file: Document::from(name), name possibly empty
          /\ rows = <<>> /\ dirty = TRUE
          /\ file_name \in {None} \cup {Some(n) : n \in InitNames}
          /\ status_message = Text("Press Ctrl-Q to quit")
       \/ \* Document::open(name)
          /\ rows \in InitDocs /\ dirty = FALSE
          /\ file_name \in {Some(n) : n \in InitNames}
          /\ status_message = Text("Press Ctrl-Q to quit")
    /\ should_quit = FALSE
    /\ cursor_position = Pos(0, 0)
    /\ offset = Pos(0, 0)
    /\ mode = "Normal"
    /\ command_buffer = <<>>
    /\ position_buffer = Pos(0, 0)
    /\ pc = "top"
    /\ highlight = None
    /\ command_buffer_args = None
    /\ pressed_key = None
    /\ read_in = "none"
    /\ call = NoCall

(***************************************************************************)
(* process_keypress, Normal mode.                                          *)
(***************************************************************************)
NormalI ==
    /\ AtTop("Normal")
    /\ Return(switch_mode(Editor, "Insert"), Char("i"))

NormalA ==
    /\ AtTop("Normal")
    /\ Return(switch_mode(move_cursor(Editor, Key("Right")), "Insert"), Char("a"))

NormalColon ==
    /\ AtTop("Normal")
    /\ Return(switch_mode(Editor, "Command"), Char(":"))

NormalSlash ==
    /\ AtTop("Normal")
    /\ Return(switch_mode(Editor, "Search"), Char("/"))

NormalOpenBelow ==
    /\ AtTop("Normal")
    /\ Return(move_cursor(switch_mode(doc_insert_newline(move_cursor(Editor, Key("End"))),
                                      "Insert"),
                          Key("Down")),
              Char("o"))

NormalOpenAbove ==
    /\ AtTop("Normal")
    /\ Return(switch_mode(doc_insert_newline(move_cursor(Editor, Key("Home"))), "Insert"),
              Char("O"))

\* 'd' starts the gesture: the handler blocks in read_key for the second key
NormalD ==
    /\ AtTop("Normal")
    /\ Block("d_gesture", Char("d"))

GestureD ==
    /\ pc = "d_gesture"
    /\ Return(doc_delete_line(Editor), Char("d"))

GestureBreak ==
    /\ pc = "d_gesture"
    /\ \E key \in {Char("w"), Key("Esc")} : Return(Editor, key)

GestureOther ==
    /\ pc = "d_gesture"
    /\ \E key \in {Char("x")} : Ignored(key)

NormalMoveKeys ==
    {Key("Up"), Key("Down"), Key("Left"), Key("Right"), Char("h"), Char("j"), Char("k"),
     Char("l"), Key("Backspace"), Key("PageUp"), Key("PageDown"), Key("End"), Key("Home")}

NormalMove ==
    /\ AtTop("Normal")
    /\ \E key \in NormalMoveKeys : Return(move_cursor(Editor, key), key)

NormalCtrlQ ==
    /\ AtTop("Normal")
    /\ Return([Editor EXCEPT !.should_quit = TRUE], Key("Ctrl-q"))

\* keys the Normal arm does not name
NormalOtherKeys == {Char("0"), Char("$"), Char("x")}

NormalOther ==
    /\ AtTop("Normal")
    /\ \E key \in NormalOtherKeys : Return(Editor, key)

(***************************************************************************)
(* process_keypress, Insert mode.                                          *)
(***************************************************************************)
InsertEsc ==
    /\ AtTop("Insert")
    /\ Return(switch_mode(move_cursor(Editor, Key("Left")), "Normal"), Key("Esc"))

InsertMove ==
    /\ AtTop("Insert")
    /\ \E key \in {Key("Up"), Key("Down"), Key("Left"), Key("Right")} :
           Return(move_cursor(Editor, key), key)

InsertChar ==
    /\ AtTop("Insert")
    /\ \E c \in TextChars \cup {NL} :
           Return(move_cursor(doc_insert(Editor, c), Key("Right")), Char(c))

InsertDelete ==
    /\ AtTop("Insert")
    /\ Return(doc_delete(Editor), Key("Delete"))

InsertBackspace ==
    /\ AtTop("Insert")
    /\ IF cursor_position.x > 0 \/ cursor_position.y > 0
       THEN Return(doc_delete(move_cursor(Editor, Key("Left"))), Key("Backspace"))
       ELSE Return(Editor, Key("Backspace"))

\* a key other than Escape leaving Insert mode (mutation of InsertOther)
InsertOther_leaves ==
    /\ AtTop("Insert")
    /\ \E key \in {Key("Home")} : Return(switch_mode(Editor, "Normal"), key)

InsertOther ==
    /\ AtTop("Insert")
    /\ \E key \in {Key("Home")} : Return(Editor, key)

(***************************************************************************)
(* process_keypress, Command mode.                                         *)
(***************************************************************************)
\* the beginnings of the command lines typed
Typed == UNION {{SubSeq(cmd, 1, k) : k \in 0..Len(cmd)} : cmd \in Commands}

\* String::pop
pop(buffer) == IF buffer = <<>> THEN buffer ELSE SubSeq(buffer, 1, Len(buffer) - 1)

\* str::split_ascii_whitespace: word is the token being read, acc the tokens read
RECURSIVE split_loop(_, _, _)
split_loop(buffer, word, acc) ==
    LET closed == IF word = <<>> THEN acc ELSE Append(acc, word)
    IN  IF buffer = <<>> THEN closed
        ELSE IF Head(buffer) \in {" ", NL}
             THEN split_loop(Tail(buffer), <<>>, closed)
             ELSE split_loop(Tail(buffer), Append(word, Head(buffer)), acc)

split_ascii_whitespace(buffer) == split_loop(buffer, <<>>, <<>>)

\* str::ends_with
ends_with(token, c) == token # <<>> /\ token[Len(token)] = c

\* command_buffer_args.get(1)
arg1(args) == IF Len(args) >= 2 THEN Some(args[2]) ELSE None

\* the match with "q" quitting whatever the dirty flag (mutation of run_command)
run_command_quits(e, args, io) ==
    LET s == save_as(e.rows, e.file_name, e.dirty, arg1(args), io)
        saved == [e EXCEPT !.file_name = s.file_name, !.dirty = s.dirty]
    IN  IF args[1] \in {<<"q">>, <<"q", "!">>}
        THEN [e EXCEPT !.should_quit = TRUE]
        ELSE IF args[1] = <<"w">>
        THEN [saved EXCEPT !.status_message = Report("Error writing file: ", s.result)]
        ELSE IF args[1] = <<"w", "q">>
        THEN [saved EXCEPT !.status_message = Report("", s.result), !.should_quit = TRUE]
        ELSE [e EXCEPT !.status_message = Fmt("Unrecognized command: ", args[1])]

\* the match with "wq" quitting only after a successful persist (mutation of
\* run_command)
run_command_wq_needs_ok(e, args, io) ==
    LET force == ends_with(args[1], "!")
        s == save_as(e.rows, e.file_name, e.dirty, arg1(args), io)
        saved == [e EXCEPT !.file_name = s.file_name, !.dirty = s.dirty]
    IN  IF args[1] \in {<<"q">>, <<"q", "!">>}
        THEN IF e.dirty /\ ~force
             THEN [e EXCEPT !.status_message = Unsaved]
             ELSE [e EXCEPT !.should_quit = TRUE]
        ELSE IF args[1] = <<"w">>
        THEN [saved EXCEPT !.status_message = Report("Error writing file: ", s.result)]
        ELSE IF args[1] = <<"w", "q">>
        THEN [saved EXCEPT !.status_message = Report("", s.result),
                           !.should_quit = s.result.ok]
        ELSE [e EXCEPT !.status_message = Fmt("Unrecognized command: ", args[1])]

\* the match on command_buffer_args[0], lines 273-306: the editor after the arm
run_command(e, args, io) ==
    LET force == ends_with(args[1], "!")
        s == save_as(e.rows, e.file_name, e.dirty, arg1(args), io)
        saved == [e EXCEPT !.file_name = s.file_name, !.dirty = s.dirty]
    IN  IF args[1] \in {<<"q">>, <<"q", "!">>}
        THEN IF e.dirty /\ ~force
             THEN [e EXCEPT !.status_message = Unsaved]
             ELSE [e EXCEPT !.should_quit = TRUE]
        ELSE IF args[1] = <<"w">>
        THEN [saved EXCEPT !.status_message = Report("Error writing file: ", s.result)]
        ELSE IF args[1] = <<"w", "q">>
        THEN [saved EXCEPT !.status_message = Report("", s.result), !.should_quit = TRUE]
        ELSE [e EXCEPT !.status_message = Fmt("Unrecognized command: ", args[1])]

\* the process aborts inside the handler (a panic): nothing else is written
Panic(args) ==
    /\ pc' = "panicked"
    /\ command_buffer_args' = Some(args)
    /\ Read(Char(NL))
    /\ UNCHANGED <<rows, file_name, dirty, cursor_position, offset, mode, command_buffer,
                   position_buffer, status_message, should_quit, term, highlight, call>>

CommandBackspace ==
    /\ AtTop("Command")
    /\ LET buffer == pop(command_buffer)
       IN  Return([Editor EXCEPT !.command_buffer = buffer,
                                 !.status_message = Fmt(":", buffer)],
                  Key("Backspace"))

CommandEsc ==
    /\ AtTop("Command")
    /\ Return(switch_mode([Editor EXCEPT !.command_buffer = <<>>], "Normal"), Key("Esc"))

\* Enter: get(0).unwrap() panics when the buffer holds no token
CommandEnter ==
    /\ AtTop("Command")
    /\ LET args == split_ascii_whitespace(command_buffer)
       IN  IF args = <<>> THEN Panic(args)
           ELSE /\ \E io \in IOs(rows) :
                       Finish(switch_mode([run_command(Editor, args, io)
                                               EXCEPT !.command_buffer = <<>>],
                                          "Normal"))
                /\ command_buffer_args' = Some(args)
                /\ Read(Char(NL))

CommandChar ==
    /\ AtTop("Command")
    /\ \E c \in CmdChars :
           LET buffer == Append(command_buffer, c)
           IN  /\ buffer \in Typed
               /\ Return([Editor EXCEPT !.command_buffer = buffer,
                                     !.status_message = Fmt(":", buffer)],
                      Char(c))

CommandOther ==
    /\ AtTop("Command")
    /\ \E key \in {Key("Delete")} : Return(Editor, key)

(***************************************************************************)
(* process_keypress, Search mode.                                          *)
(***************************************************************************)
\* the hit is found but the cursor is left where it is (mutation of jump)
jump_keeps_cursor(e, hit, word) ==
    scroll([e EXCEPT !.highlight = word])

\* if let Some(position) = find(..) { cursor_position = position; [highlight;] scroll() }
jump(e, hit, word) ==
    scroll([e EXCEPT !.cursor_position = hit[1], !.highlight = word])

SearchBackspace ==
    /\ AtTop("Search")
    /\ LET buffer == pop(command_buffer)
           e1 == [Editor EXCEPT !.command_buffer = buffer]
           hit == find(rows, buffer, cursor_position, "Forward")
           e2 == IF hit # None THEN jump(e1, hit, highlight) ELSE e1
       IN  Return([e2 EXCEPT !.status_message = Fmt("/", buffer)], Key("Backspace"))

SearchEsc ==
    /\ AtTop("Search")
    /\ LET e1 == [Editor EXCEPT !.command_buffer = <<>>,
                                !.status_message = Text(""),
                                !.cursor_position = position_buffer]
       IN  Return([switch_mode(e1, "Normal") EXCEPT !.highlight = None], Key("Esc"))

\* Enter: the handler blocks in the result-navigation loop
SearchEnter ==
    /\ AtTop("Search")
    /\ Block("search_nav", Char(NL))

\* Escape in the navigation loop setting the mode without switch_mode
\* (mutation of NavEsc)
NavEsc_keeps_query ==
    /\ pc = "search_nav"
    /\ Return([Editor EXCEPT !.cursor_position = position_buffer,
                             !.status_message = Text(""),
                             !.mode = "Normal",
                             !.highlight = None],
              Key("Esc"))

NavEsc ==
    /\ pc = "search_nav"
    /\ LET e1 == [Editor EXCEPT !.cursor_position = position_buffer]
       IN  Return([switch_mode(e1, "Normal") EXCEPT !.highlight = None], Key("Esc"))

\* 'n' / 'N': step off the current match, search, step back on a miss; the loop
\* then redraws and reads the next key (no scroll of its own)
NavNext ==
    /\ pc = "search_nav"
    /\ \E c \in {"n", "N"} :
           LET there == IF c = "N" THEN Key("Left") ELSE Key("Right")
               back == IF c = "N" THEN Key("Right") ELSE Key("Left")
               e1 == move_cursor(Editor, there)
               hit == find(e1.rows, e1.command_buffer, e1.cursor_position,
                           IF c = "N" THEN "Backward" ELSE "Forward")
               e2 == IF hit # None THEN jump(e1, hit, e1.highlight)
                     ELSE [move_cursor(e1, back) EXCEPT !.status_message =
                               Fmt(":{} - No results for search", e1.command_buffer)]
           IN  /\ Commit([e2 EXCEPT !.status_message = Fmt("/", e2.command_buffer)])
               /\ Read(Char(c))
    /\ command_buffer_args' = None
    /\ UNCHANGED <<term, pc, call>>

NavOther ==
    /\ pc = "search_nav"
    /\ \E key \in {Char("x")} : Ignored(key)

SearchChar ==
    /\ AtTop("Search")
    /\ Len(command_buffer) < MaxSearch
    /\ \E c \in TextChars :
           LET buffer == Append(command_buffer, c)
               e1 == [Editor EXCEPT !.command_buffer = buffer]
               hit == find(rows, buffer, position_buffer, "Forward")
               e2 == IF hit # None THEN jump(e1, hit, Some(buffer))
                     ELSE [e1 EXCEPT !.status_message = Fmt("No results for search: ", buffer)]
           IN  Return([e2 EXCEPT !.status_message = Fmt("/", buffer)], Char(c))

SearchOther ==
    /\ AtTop("Search")
    /\ \E key \in {Key("Delete")} : Return(Editor, key)

(***************************************************************************)
(* The editor.                                                             *)
(***************************************************************************)
Next ==
    \/ NormalI \/ NormalA \/ NormalColon \/ NormalSlash
    \/ NormalOpenBelow \/ NormalOpenAbove
    \/ NormalD \/ GestureD \/ GestureBreak \/ GestureOther
    \/ NormalMove \/ NormalCtrlQ \/ NormalOther
    \/ InsertEsc \/ InsertMove \/ InsertChar \/ InsertDelete \/ InsertBackspace
    \/ InsertOther
    \/ CommandBackspace \/ CommandEsc \/ CommandEnter \/ CommandChar \/ CommandOther
    \/ SearchBackspace \/ SearchEsc \/ SearchEnter \/ NavEsc \/ NavNext \/ NavOther
    \/ SearchChar \/ SearchOther

Spec == Init /\ [][Next]_vars

(***************************************************************************)
(* The Document API called directly: a document is drawn, then one call    *)
(* (or an insert followed by a delete at the same Position) is made on it. *)
(***************************************************************************)
Docs == SeqsUpTo(SeqsUpTo(DocChars, MaxDocLen), MaxDocRows)

\* Positions, in and out of range
Positions == {Pos(px, py) : px \in 0..(MaxDocLen + 1), py \in 0..(MaxDocRows + 1)}

Queries == SeqsUpTo(DocChars, MaxQuery) \ {<<>>}

DocNames == {<<"a">>, <<"b">>}

\* the editor is not running
EditorIdle ==
    /\ term = [height |-> 1, width |-> 1]
    /\ should_quit = FALSE
    /\ cursor_position = Pos(0, 0)
    /\ offset = Pos(0, 0)
    /\ mode = "Normal"
    /\ command_buffer = <<>>
    /\ position_buffer = Pos(0, 0)
    /\ status_message = Text("")
    /\ pc = "top"
    /\ highlight = None
    /\ command_buffer_args = None
    /\ pressed_key = None
    /\ read_in = "none"

InitFind ==
    /\ EditorIdle
    /\ rows \in Docs /\ file_name = Some(<<"a">>) /\ dirty = FALSE
    /\ call = NoCall

DocFind ==
    /\ call.op = "none"
    /\ \E query \in Queries, at \in Positions, direction \in {"Forward", "Backward"} :
           call' = [op |-> "find", query |-> query, at |-> at, direction |-> direction,
                    result |-> find(rows, query, at, direction)]
    /\ UNCHANGED <<rows, file_name, dirty>>
    /\ UNCHANGED editor_vars

NextFind == DocFind

SpecFind == InitFind /\ [][NextFind]_vars

InitEdit ==
    /\ EditorIdle
    /\ rows \in Docs /\ file_name = Some(<<"a">>) /\ dirty \in BOOLEAN
    /\ call = NoCall

\* the call changes rows and dirty as r says
Edited(r) == rows' = r.rows /\ dirty' = r.dirty /\ UNCHANGED file_name /\ UNCHANGED editor_vars

DocInsert ==
    /\ call.op = "none"
    /\ \E at \in Positions, c \in DocChars \cup {NL} :
           /\ call' = [op |-> "insert", at |-> at, c |-> c, before |-> rows,
                       was_dirty |-> dirty]
           /\ Edited(insert(rows, dirty, at, c))

\* delete at the Position of the insert just made
DocInsertDelete ==
    /\ call.op = "insert"
    /\ call' = [call EXCEPT !.op = "insert_delete"]
    /\ Edited(delete(rows, dirty, call.at))

DocDelete ==
    /\ call.op = "none"
    /\ \E at \in Positions :
           /\ call' = [op |-> "delete", at |-> at, before |-> rows, was_dirty |-> dirty]
           /\ Edited(delete(rows, dirty, at))

DocDeleteLine ==
    /\ call.op = "none"
    /\ \E at \in Positions :
           /\ call' = [op |-> "delete_line", at |-> at, before |-> rows, was_dirty |-> dirty]
           /\ Edited(delete_line(rows, dirty, at))

DocInsertNewline ==
    /\ call.op = "none"
    /\ \E at \in Positions :
           /\ call' = [op |-> "insert_newline", at |-> at, before |-> rows,
                       was_dirty |-> dirty]
           /\ Edited([rows |-> insert_newline(rows, at), dirty |-> dirty])

NextEdit == DocInsert \/ DocInsertDelete \/ DocDelete \/ DocDeleteLine \/ DocInsertNewline

SpecEdit == InitEdit /\ [][NextEdit]_vars

InitSave ==
    /\ EditorIdle
    /\ rows \in Docs /\ dirty \in BOOLEAN
    /\ file_name \in {None} \cup {Some(n) : n \in DocNames}
    /\ call = NoCall

DocSaveAs ==
    /\ call.op = "none"
    /\ \E filename \in {None} \cup {Some(n) : n \in DocNames}, io \in IOs(rows) :
           LET s == save_as(rows, file_name, dirty, filename, io)
           IN  /\ call' = [op |-> "save_as", filename |-> filename, io |-> io,
                           prev_name |-> file_name, was_dirty |-> dirty,
                           result |-> s.result, written |-> s.written]
               /\ file_name' = s.file_name
               /\ dirty' = s.dirty
    /\ UNCHANGED rows
    /\ UNCHANGED editor_vars

NextSave == DocSaveAs

SpecSave == InitSave /\ [][NextSave]_vars

(***************************************************************************)
(* Editor::move_cursor called directly: a document and a cursor are drawn, *)
(* then one key is given to move_cursor.  The cursors drawn are those the  *)
(* editor can hold: a row index up to the row count, a column up to the    *)
(* longest row (deleting a line leaves the column as it was).              *)
(***************************************************************************)
\* the keys move_cursor names
MoveKeys ==
    {Key("Up"), Key("Down"), Key("Left"), Key("Right"), Char("h"), Char("j"), Char("k"),
     Char("l"), Key("Backspace"), Key("PageUp"), Key("PageDown"), Key("End"), Key("Home"),
     Char("0"), Char("$")}

InitMove ==
    /\ term = [height |-> TermSize, width |-> TermSize]
    /\ rows \in Docs /\ file_name = Some(<<"a">>) /\ dirty = FALSE
    /\ cursor_position \in {Pos(px, py) : px \in 0..MaxDocLen, py \in 0..MaxDocRows}
    /\ cursor_position.y <= Len(rows)
    /\ should_quit = FALSE
    /\ offset = Pos(0, 0)
    /\ mode = "Normal"
    /\ command_buffer = <<>>
    /\ position_buffer = Pos(0, 0)
    /\ status_message = Text("")
    /\ pc = "top"
    /\ highlight = None
    /\ command_buffer_args = None
    /\ pressed_key = None
    /\ read_in = "none"
    /\ call = NoCall

EditorMove ==
    /\ call.op = "none"
    /\ \E key \in MoveKeys :
           /\ call' = [op |-> "move_cursor", key |-> key, from |-> cursor_position]
           /\ cursor_position' = move_cursor(Editor, key).cursor_position
    /\ UNCHANGED <<rows, file_name, dirty, offset, mode, command_buffer, position_buffer,
                   status_message, should_quit, term, pc, highlight, command_buffer_args,
                   pressed_key, read_in>>

NextMove == EditorMove

SpecMove == InitMove /\ [][NextMove]_vars

(***************************************************************************)
(* Properties of the editor (Spec).                                        *)
(***************************************************************************)
\* the first token of the command line the key just processed executed
Executed(token) ==
    /\ command_buffer_args # None
    /\ command_buffer_args[1] # <<>>
    /\ command_buffer_args[1][1] = token

\* C1: every key event that changes the row contents or the row count leaves
\* the document dirty.
C1_MutationSetsDirty == [][rows' # rows => dirty']_vars

\* C2: the command q sets should_quit only on a document that is not dirty; on
\* a dirty document q leaves should_quit false and the editor in Normal mode,
\* and q! sets should_quit.  (Neither command writes dirty, so the flag after
\* the command is the flag before it.)
C2_QuitRespectsDirty ==
    /\ Executed(<<"q">>) /\ should_quit => ~dirty
    /\ Executed(<<"q">>) /\ dirty => ~should_quit /\ mode = "Normal" /\ pc = "top"
    /\ Executed(<<"q", "!">>) /\ dirty => should_quit

\* C2 witness: q has been executed on a dirty document and the editor goes on
C2_Witness ==
    /\ Executed(<<"q">>) /\ dirty /\ ~should_quit /\ mode = "Normal"

\* C3: Enter in Command mode is never fatal and ends in Normal mode with an
\* empty command buffer, whatever the buffer held.
C3_EnterNeverFatal ==
    command_buffer_args # None =>
        pc # "panicked" /\ mode = "Normal" /\ command_buffer = <<>>

\* the reports a persist of the current rows can make under prefix
PersistReports(prefix) ==
    {Status("written", n, "", Len(rows), size_in_bytes(rows)) :
         n \in {command_buffer_args[1][k] : k \in 2..Len(command_buffer_args[1])}
               \cup {file_name[k] : k \in 1..Len(file_name)}}
    \cup {Status(prefix, <<>>, t, 0, 0) :
              t \in {"Document is empty", "Document has no file name", "io error"}}

\* C4: when Enter in Command mode has executed a command, the status message
\* the editor holds back at the top-level loop is that command's report.
C4_StatusIsReport ==
    (command_buffer_args # None /\ pc = "top") =>
        /\ Executed(<<"q">>) /\ dirty => status_message = Unsaved
        /\ Executed(<<"w">>) => status_message \in PersistReports("Error writing file: ")
        /\ Executed(<<"w", "q">>) => status_message \in PersistReports("")
        /\ command_buffer_args[1][1] \notin {<<"q">>, <<"q", "!">>, <<"w">>, <<"w", "q">>}
               => status_message = Fmt("Unrecognized command: ", command_buffer_args[1][1])

\* C5: back at the top-level loop, on a terminal of at least one row and one
\* column, the cursor is inside the viewport on both axes; the recomputation
\* of rows = 10, offset.y = 0, cursor.y = 15 gives offset.y = 6.
C5_CursorInViewport ==
    /\ scroll_axis(15, 0, 10) = 6
    /\ (pc = "top" /\ term.height >= 1 /\ term.width >= 1) =>
           /\ offset.y <= cursor_position.y
           /\ cursor_position.y < offset.y + term.height
           /\ offset.x <= cursor_position.x
           /\ cursor_position.x < offset.x + term.width

\* C5 witness: the viewport has scrolled on both axes to follow the cursor
C5_Witness ==
    /\ pc = "top" /\ term.height = 1 /\ term.width = 1
    /\ offset.x > 0 /\ offset.y > 0
    /\ cursor_position = offset

(***************************************************************************)
(* Properties of Editor::move_cursor (SpecMove).                           *)
(***************************************************************************)
\* an editor on three rows of lengths 3, 0 and 5 with the cursor at (3, 0)
ThreeRows ==
    [Editor EXCEPT !.rows = <<<<"a", "a", "a">>, <<>>, <<"a", "a", "a", "a", "a">>>>,
                   !.cursor_position = Pos(3, 0)]

\* C13: Right at the end of a row that has a following row moves to column 0
\* of the next row (rows of lengths 3, 0, 5: from (3,0) to (0,1)); Left at
\* column 0 of a row y > 0 moves to the end column of row y - 1; Left at
\* (0,0) leaves the cursor where it is.
C13_HorizontalWrap ==
    /\ move_cursor(ThreeRows, Key("Right")).cursor_position = Pos(0, 1)
    /\ call.op = "move_cursor" =>
           /\ (/\ call.key = Key("Right")
               /\ call.from.y + 1 < Len(rows)
               /\ call.from.x = Len(rows[call.from.y + 1]))
                  => cursor_position = Pos(0, call.from.y + 1)
           /\ (call.key = Key("Left") /\ call.from.x = 0 /\ call.from.y > 0)
                  => cursor_position = Pos(Len(rows[call.from.y]), call.from.y - 1)
           /\ (call.key = Key("Left") /\ call.from = Pos(0, 0))
                  => cursor_position = call.from

\* C13 witness: Right at the end of a row of two characters went to the
\* start of the row below
C13_Witness ==
    /\ call.op = "move_cursor" /\ call.key = Key("Right")
    /\ Len(rows) = 2 /\ Len(rows[1]) = 2
    /\ call.from = Pos(2, 0)
    /\ cursor_position = Pos(0, 1)

\* C13 witness of Left: from column 0 of the second row to the end of the first
C13_WitnessLeft ==
    /\ call.op = "move_cursor" /\ call.key = Key("Left")
    /\ Len(rows) = 2 /\ Len(rows[1]) = 2
    /\ call.from = Pos(0, 1)
    /\ cursor_position = Pos(2, 0)

(***************************************************************************)
(* Properties of the Document calls (SpecEdit, SpecFind, SpecSave).        *)
(***************************************************************************)
\* C6: insert(at, c) followed by delete(at) restores the row contents, for
\* every document, Position and character.
C6_InsertDeleteRestores == call.op = "insert_delete" => rows = call.before

\* the Position is inside the document: an existing row, a column up to its end
Inside(rs, at) == at.y < Len(rs) /\ at.x <= Len(rs[at.y + 1])

\* C6 as amended: insert(at, c) followed by delete(at) restores the row
\* contents for every character, the line break included, when at is inside
\* the document (at.y < row_count and at.x <= length of row at.y).
C6_InsertDeleteRestoresInside ==
    (call.op = "insert_delete" /\ Inside(call.before, call.at)) => rows = call.before

\* C6 witness: a row was split in two by a line break and joined again
C6_Witness ==
    /\ call.op = "insert_delete" /\ call.c = NL
    /\ Inside(call.before, call.at)
    /\ 0 < call.at.x /\ call.at.x < Len(call.before[call.at.y + 1])
    /\ rows = call.before

\* the occurrences of query in the document
Occurrences(rs, query) ==
    {p \in {Pos(px, py) : px \in 0..(MaxDocLen + 1), py \in 0..(MaxDocRows + 1)} :
         p.y < Len(rs) /\ RowOccurs(rs[p.y + 1], query, p.x)}

\* p comes before q in document order
Before(p, q) == p.y < q.y \/ (p.y = q.y /\ p.x <= q.x)

AtOrAfter(rs, query, at) == {p \in Occurrences(rs, query) : Before(at, p)}

AtOrBefore(rs, query, at) == {p \in Occurrences(rs, query) : Before(p, at)}

Hello == <<"h", "e", "l", "l", "o">>

\* C7: Forward find returns the first occurrence in document order at or
\* after the start position, and None exactly when there is none, never
\* wrapping; on the row "hello", "l" is found at (2,0) from (0,0), at (3,0)
\* from (3,0), and not from (4,0).
C7_ForwardFindsFirst ==
    /\ find(<<Hello>>, <<"l">>, Pos(0, 0), "Forward") = Some(Pos(2, 0))
    /\ find(<<Hello>>, <<"l">>, Pos(3, 0), "Forward") = Some(Pos(3, 0))
    /\ find(<<Hello>>, <<"l">>, Pos(4, 0), "Forward") = None
    /\ (call.op = "find" /\ call.direction = "Forward") =>
           LET hits == AtOrAfter(rows, call.query, call.at)
           IN  IF hits = {} THEN call.result = None
               ELSE /\ call.result # None
                    /\ call.result[1] \in hits
                    /\ \A p \in hits : Before(call.result[1], p)

\* C7 witness: the hit is in a row after the start row, which has the query
\* only before the start column
C7_Witness ==
    /\ call.op = "find" /\ call.direction = "Forward"
    /\ call.result # None
    /\ call.result[1].y > call.at.y
    /\ \E p \in Occurrences(rows, call.query) : p.y = call.at.y /\ p.x < call.at.x

\* C8: Backward find scans row from.y from column from.x and then the rows
\* from.y - 1 down to 0: whenever the query occurs at or before the start
\* position, the nearest such occurrence is returned.
C8_BackwardFindsNearest ==
    (call.op = "find" /\ call.direction = "Backward") =>
        LET hits == AtOrBefore(rows, call.query, call.at)
        IN  hits # {} =>
                /\ call.result # None
                /\ call.result[1] \in hits
                /\ \A p \in hits : Before(p, call.result[1])

\* C9: a Position returned by find is inside the document.
C9_FindInBounds ==
    (call.op = "find" /\ call.result # None) =>
        /\ 0 <= call.result[1].y /\ call.result[1].y < Len(rows)
        /\ 0 <= call.result[1].x
        /\ call.result[1].x <= Len(rows[call.result[1].y + 1])

\* C9 witness: a hit returned for a start column beyond the end of its row
C9_Witness ==
    /\ call.op = "find" /\ call.result # None
    /\ call.at.x > Len(rows[call.result[1].y + 1])

\* C10: save_as with a name different from the document's name persists the
\* rows under the given name (whatever it writes, it writes there) and leaves
\* file_name as it was, whether the persist succeeds or fails.
C10_SaveAsRestoresName ==
    (/\ call.op = "save_as"
     /\ call.filename # None /\ call.prev_name # None
     /\ call.filename # call.prev_name) =>
        /\ file_name = call.prev_name
        /\ call.result.ok =>
               call.written = Some([name |-> call.filename[1], rows |-> rows])
        /\ call.written # None => call.written[1].name = call.filename[1]

\* C10 witness: a document named "a" was written to "b" and is still named "a"
C10_Witness ==
    /\ call.op = "save_as"
    /\ call.prev_name = Some(<<"a">>) /\ call.filename = Some(<<"b">>)
    /\ call.result.ok /\ call.written # None
    /\ file_name = Some(<<"a">>)

\* C10 witness of the failing persist: nothing written, the name as it was
C10_WitnessFailed ==
    /\ call.op = "save_as"
    /\ call.prev_name = Some(<<"a">>) /\ call.filename = Some(<<"b">>)
    /\ ~call.result.ok
    /\ file_name = Some(<<"a">>)

\* C11: dirty goes from true to false only in a save_as that returns Ok, and
\* a save_as that returns an error leaves dirty as it was, on every path.
C11_DirtyClearedOnlyByOk ==
    call.op = "save_as" =>
        /\ (call.was_dirty /\ ~dirty) => call.result.ok
        /\ ~call.result.ok => dirty = call.was_dirty

\* the edit calls
EditOps == {"insert", "insert_newline", "delete", "delete_line"}

\* C12: insert and insert_newline with at.y > row_count, and delete and
\* delete_line with at.y >= row_count, leave rows and dirty unchanged; insert
\* and insert_newline with at.y = row_count append exactly one row, holding
\* the inserted character or empty for a line break, and leave the existing
\* rows unchanged.
C12_OutOfRangeIsNoOp ==
    call.op \in EditOps =>
        /\ (call.op \in {"insert", "insert_newline"} /\ call.at.y > Len(call.before))
               => rows = call.before /\ dirty = call.was_dirty
        /\ (call.op \in {"delete", "delete_line"} /\ call.at.y >= Len(call.before))
               => rows = call.before /\ dirty = call.was_dirty
        /\ (call.op = "insert" /\ call.at.y = Len(call.before))
               => rows = Append(call.before, IF call.c = NL THEN <<>> ELSE <<call.c>>)
        /\ (call.op = "insert_newline" /\ call.at.y = Len(call.before))
               => rows = Append(call.before, <<>>)

\* C12 witness: a line break inserted two rows past the end of a dirty
\* document of one row changed nothing
C12_Witness ==
    /\ call.op = "insert_newline"
    /\ Len(call.before) = 1 /\ call.at.y = 3
    /\ call.was_dirty /\ dirty
    /\ rows = call.before

\* C12 witness of the append: a character inserted at row index row_count of
\* a document of two rows
C12_WitnessAppend ==
    /\ call.op = "insert" /\ call.c # NL
    /\ Len(call.before) = 2 /\ call.at.y = 2 /\ call.at.x > 0
    /\ Len(rows) = 3 /\ rows[3] = <<call.c>>


(***************************************************************************)
(* Properties of the editor's modes, searches and gestures (Spec).         *)
(***************************************************************************)
\* C14: the snapshot is the cursor position at the '/' that entered Search
\* mode and no key of Search mode changes it; Escape in Search mode, at the
\* top level or inside the result-navigation loop, ends in Normal mode with
\* the cursor on the snapshot, the query empty and no highlight overlay.
C14_EscapeRestoresSearch ==
    [][/\ (mode = "Normal" /\ mode' = "Search")
              => position_buffer' = cursor_position /\ cursor_position' = cursor_position
       /\ (mode = "Search" /\ mode' = "Search") => position_buffer' = position_buffer
       /\ (mode = "Search" /\ pressed_key' = Some(Key("Esc")))
              => /\ mode' = "Normal" /\ pc' = "top"
                 /\ cursor_position' = position_buffer
                 /\ command_buffer' = <<>>
                 /\ highlight' = None]_vars

\* C14 witness: Escape was read in the result-navigation loop and the editor
\* is back in Normal mode on the snapshot, which is not the document start
C14_Witness ==
    /\ pressed_key = Some(Key("Esc")) /\ read_in = "search_nav"
    /\ mode = "Normal" /\ pc = "top"
    /\ cursor_position = position_buffer /\ cursor_position # Pos(0, 0)
    /\ command_buffer = <<>> /\ highlight = None

NoResults(query) ==
    {Fmt("No results for search: ", query), Fmt(":{} - No results for search", query)}

\* C16: when the find of a character key in Search mode, or of 'n' / 'N' in
\* the result-navigation loop, yields nothing, the status message the key
\* leaves is the no-results report for the current query.
C16_MissIsReported ==
    [][/\ \A c \in TextChars :
              (/\ AtTop("Search") /\ pressed_key' = Some(Char(c))
               /\ find(rows, Append(command_buffer, c), position_buffer, "Forward") = None)
                  => status_message' \in NoResults(command_buffer')
       /\ (/\ pc = "search_nav" /\ pressed_key' = Some(Char("n"))
           /\ find(rows, command_buffer,
                   move_cursor(Editor, Key("Right")).cursor_position, "Forward") = None)
              => status_message' \in NoResults(command_buffer')
       /\ (/\ pc = "search_nav" /\ pressed_key' = Some(Char("N"))
           /\ find(rows, command_buffer,
                   move_cursor(Editor, Key("Left")).cursor_position, "Backward") = None)
              => status_message' \in NoResults(command_buffer')]_vars

\* C17: the command wq, with or without a name, sets should_quit whether the
\* persist returned Ok or an error.
C17_WqAlwaysQuits == Executed(<<"w", "q">>) => should_quit /\ pc = "top"

\* C17 witness: wq was executed on a dirty document without a name, nothing
\* was written, the document is still dirty and the editor quits
C17_Witness ==
    /\ Executed(<<"w", "q">>) /\ Len(command_buffer_args[1]) = 1
    /\ file_name = None /\ dirty /\ rows # <<>>
    /\ should_quit


Modes == {"Normal", "Insert", "Command", "Search"}

\* C18: the mode is always one of the four; a step that changes the mode
\* starts or ends in Normal, so no key moves directly between Insert,
\* Command and Search; the key that leaves Insert mode is Escape.
C18_ModesGoThroughNormal ==
    [][/\ mode \in Modes /\ mode' \in Modes
       /\ mode' # mode => (mode = "Normal" \/ mode' = "Normal")
       /\ (mode = "Insert" /\ mode' # "Insert") => pressed_key' = Some(Key("Esc"))]_vars

\* C18 witness: Escape was read in Insert mode and the editor is in Normal mode
C18_Witness ==
    /\ read_in = "Insert" /\ pressed_key = Some(Key("Esc"))
    /\ mode = "Normal" /\ rows # <<>>

\* C19: in the delete-line gesture a second 'd' ends the gesture and removes
\* exactly the row at cursor.y when there is one; Escape ends it and changes
\* nothing; any other key, 'w' included, is ignored and the gesture goes on
\* waiting.
C19_GestureEndsOnDOrEsc ==
    [][pc = "d_gesture" =>
           /\ pressed_key' = Some(Char("d")) =>
                  /\ pc' = "top"
                  /\ rows' = IF cursor_position.y < Len(rows)
                             THEN VecRemove(rows, cursor_position.y) ELSE rows
           /\ pressed_key' = Some(Key("Esc")) =>
                  pc' = "top" /\ UNCHANGED <<rows, dirty, cursor_position, mode>>
           /\ pressed_key' \notin {Some(Char("d")), Some(Key("Esc"))} =>
                  pc' = "d_gesture" /\ UNCHANGED <<rows, dirty, cursor_position, mode>>]_vars

\* C20: in Normal mode '0' puts the cursor on column 0 and '$' on the column
\* after the last character of the current row; the row index stays.
C20_ZeroDollarAreHomeEnd ==
    [][AtTop("Normal") =>
           /\ pressed_key' = Some(Char("0")) =>
                  cursor_position' = Pos(0, cursor_position.y)
           /\ pressed_key' = Some(Char("$")) =>
                  cursor_position' = Pos(width_at(rows, cursor_position.y),
                                         cursor_position.y)]_vars


\* C21: Escape in Insert mode switches to Normal mode and moves the cursor
\* one column left within its row: the row index stays, the column goes down
\* by one, or stays 0 when it is 0.
C21_InsertEscStepsLeft ==
    [][(AtTop("Insert") /\ pressed_key' = Some(Key("Esc"))) =>
           /\ mode' = "Normal"
           /\ cursor_position' = Pos(saturating_sub(cursor_position.x, 1),
                                     cursor_position.y)]_vars

\* C22: a character key other than the line break, read in Insert mode with
\* the cursor at (x, y), leaves the cursor on row y immediately after the
\* inserted character: the character of row y at index cursor.x - 1 is the
\* one typed.
C22_InsertCharAdvances ==
    [][\A c \in TextChars :
           (AtTop("Insert") /\ pressed_key' = Some(Char(c))) =>
               /\ cursor_position'.y = cursor_position.y
               /\ cursor_position'.y < Len(rows')
               /\ cursor_position'.x >= 1
               /\ cursor_position'.x <= Len(rows'[cursor_position'.y + 1])
               /\ rows'[cursor_position'.y + 1][cursor_position'.x] = c]_vars

\* C23: in the result-navigation loop an 'n' or 'N' whose find yields nothing
\* leaves the cursor where it was before the key.
C23_NavMissKeepsCursor ==
    [][/\ (/\ pc = "search_nav" /\ pressed_key' = Some(Char("n"))
           /\ find(rows, command_buffer,
                   move_cursor(Editor, Key("Right")).cursor_position, "Forward") = None)
              => cursor_position' = cursor_position
       /\ (/\ pc = "search_nav" /\ pressed_key' = Some(Char("N"))
           /\ find(rows, command_buffer,
                   move_cursor(Editor, Key("Left")).cursor_position, "Backward") = None)
              => cursor_position' = cursor_position]_vars

\* C24: a key of Search mode that changes the query leaves the rows
\* highlighted for the query as it now is (for no word when it is empty).
C24_HighlightFollowsQuery ==
    [][(AtTop("Search") /\ mode' = "Search" /\ command_buffer' # command_buffer) =>
           \/ highlight' = Some(command_buffer')
           \/ command_buffer' = <<>> /\ highlight' = None]_vars


\* C25: in every state, whatever keys were read and in whatever mode, the
\* cursor row is between 0 and the row count.
C25_CursorRowInDocument ==
    0 <= cursor_position.y /\ cursor_position.y <= Len(rows)

\* C25 witness: 'dd' removed the last row of a document of two rows and the
\* cursor is on the row index that is now the row count
C25_Witness ==
    /\ read_in = "d_gesture" /\ pressed_key = Some(Char("d"))
    /\ Len(rows) = 1 /\ cursor_position.y = 1

\* C26: back at the top-level loop the cursor column is at most the length
\* of the row at cursor.y, and 0 on the row index row_count.
C26_CursorColumnInRow ==
    pc = "top" => cursor_position.x <= width_at(rows, cursor_position.y)

\* C27: in Normal and Insert mode the command / query buffer is empty, so
\* ':' and '/' start from an empty buffer.
C27_BufferOnlyInCommandSearch ==
    mode \in {"Normal", "Insert"} => command_buffer = <<>>

\* C27 witness: Enter executed a command line and the editor is back in
\* Normal mode with the buffer empty
C27_Witness ==
    /\ command_buffer_args # None /\ Len(command_buffer_args[1]) = 2
    /\ mode = "Normal" /\ pc = "top"
    /\ command_buffer = <<>>

\* C28: should_quit becomes true on a dirty document only by the commands
\* q! and wq; no other key sets it while the document is dirty.
C28_QuitDirtyOnlyOnRequest ==
    [][(~should_quit /\ should_quit' /\ dirty') =>
           /\ command_buffer_args' # None
           /\ command_buffer_args'[1] # <<>>
           /\ command_buffer_args'[1][1] \in {<<"q", "!">>, <<"w", "q">>}]_vars


====
